---- MODULE Spec2Model ----
(***************************************************************************)
(* The OTP verification and ballot/vote protocol of the voting backend:    *)
(* requestOTP and confirmOTP (verification.controller.js), getBallot and   *)
(* castVote (votes controller), over the verifications, ballots and votes  *)
(* tables of the init migration.                                           *)
(*                                                                         *)
(* Every handler is an async function: it runs on its own until the next   *)
(* `await prisma...`, so one action models the code from one database call *)
(* to the next, and several requests interleave at those points.  Reads of *)
(* tables this protocol never writes (eligible_voters, positions,          *)
(* candidates) are folded into the neighbouring step.  Times are in        *)
(* milliseconds, as Date.now() gives them.                                 *)
(***************************************************************************)
EXTENDS Integers, Sequences, FiniteSets, Bags, TLC

\* ------------------------------------------------------------------ bounds
MaxVerifications == 2      \* rows the verifications table may hold
MaxBallots == 2            \* rows the ballots table may hold
MaxTime == 400000          \* the clock stops here
MaxFaults == 1             \* database writes that may fail in one run
MaxFailedAttempts == 2     \* OTP_VERIFICATION_FAILED rows audit_logs may hold
MaxDate == 5000000         \* the latest instant a window is extended to
MaxResets == 2             \* rows the password_resets table may hold

\* --------------------------------------------------------- program constants
OTP_COOLDOWN == 60000      \* 60 * 1000, requestOTP rate limit
OTP_EXPIRY == 300000       \* 5 * 60 * 1000, expiresAt
EXPIRES_IN == 300          \* expiresIn of the requestOTP response, seconds
MS_PER_SECOND == 1000      \* the `/ 1000` of secondsRemaining
MS_PER_HOUR == 3600000     \* what setHours(getHours() + 1) adds to a Date
RESET_COOLDOWN == 120000   \* 2 * 60 * 1000, requestPasswordReset rate limit
RESET_EXPIRY == 300000     \* 5 * 60 * 1000, expiresAt of a password reset
RESET_RETRY_AFTER == 120   \* retryAfter of the 429, seconds
RESET_EXPIRES_IN == 300    \* expiresIn of the 200, seconds

NULL == 0 - 1              \* a NULL column / an unset local

\* ------------------------------------------------------------- fixed tables
Slots == {"r1", "r2"}      \* requests that may be in flight together
TickSteps == {200000}       \* how far the clock moves in one step

\* eligible_voters: regNo -> row (the import writes email, phone and ELIGIBLE)
EligibleVoters ==
  [REG001 |-> [id |-> "V1", status |-> "ELIGIBLE", email |-> TRUE, phone |-> TRUE],
   REG002 |-> [id |-> "V2", status |-> "ELIGIBLE", email |-> TRUE, phone |-> TRUE]]
VoterIds == {EligibleVoters[r].id : r \in DOMAIN EligibleVoters}
\* the reg_no a client may send; REG404 is in no row
RegNoInputs == {"REG001", "REG002", "REG404"}
OneVoterInputs == {"REG001", "REG404"}

\* what crypto.randomInt may draw, and what a client may submit
Codes == {"111111", "222222"}

\* positions as the election starts: id -> nomination and voting windows
Positions ==
  [P1 |-> [nominationOpens |-> 0 - 200000, nominationCloses |-> 0 - 100000,
           votingOpens |-> 0, votingCloses |-> 1000000],
   P2 |-> [nominationOpens |-> 0 - 200000, nominationCloses |-> 0 - 100000,
           votingOpens |-> 0, votingCloses |-> 200000]]

\* candidates: id -> row
Candidates ==
  [C1 |-> [positionId |-> "P1", status |-> "APPROVED"],
   C2 |-> [positionId |-> "P1", status |-> "APPROVED"],
   C3 |-> [positionId |-> "P2", status |-> "APPROVED"],
   C4 |-> [positionId |-> "P1", status |-> "REJECTED"],
   C5 |-> [positionId |-> "P2", status |-> "SUBMITTED"]]

Sel(p, c) == [positionId |-> p, candidateId |-> c]

\* the `votes` arrays a client submits
VoteBatches ==
  { <<Sel("P1", "C1")>>,
    <<Sel("P2", "C3")>>,
    <<Sel("P1", "C2"), Sel("P2", "C3")>>,
    <<Sel("P1", "C4")>>,
    <<Sel("P1", "C1"), Sel("P1", "C2")>> }

VARIABLES
  now,            \* the wall clock, Date.now() / CURRENT_TIMESTAMP
  verifications,  \* table verifications, id = index
  ballots,        \* table ballots, id = index, token = index
  votes,          \* table votes, a bag of rows (the row ids are left out)
  req,            \* per slot: the request in flight, its position and locals
  faults,         \* database writes that have failed so far
  deliveries,     \* sendOTPEmail / sendOTPSMS promises not yet settled
  auditLogs,      \* table audit_logs: the rows logAudit has written
  positions,      \* table positions: id -> row
  passwordResets  \* table password_resets, a set of rows

vars == <<now, verifications, ballots, votes, req, faults, deliveries, auditLogs,
          positions, passwordResets>>

\* ------------------------------------------------------------- responses
NoBallot == [id |-> NULL, status |-> ""]
NoResp == [status |-> 0, error |-> "", token |-> NULL, n |-> 0,
           ballot |-> NoBallot, positions |-> {}, candidates |-> {}]
\* for comparison: every error answered as a 400
Err_BadRequest(status, error) == [NoResp EXCEPT !.status = 400, !.error = error]

Err(status, error) == [NoResp EXCEPT !.status = status, !.error = error]

Idle == [op |-> "idle", pc |-> "idle", regNo |-> "", email |-> "", otp |-> "",
         token |-> NULL,
         votes |-> <<>>, now |-> NULL, ver |-> NULL, expiresAt |-> NULL,
         ballot |-> NULL, resp |-> NoResp]

\* res.status(..).json(..) / res.json(..): the handler is over; of the request
\* the slot keeps what the client sent
Done(r, resp) == [r EXCEPT !.pc = "done", !.resp = resp, !.now = NULL,
                           !.ver = NULL, !.expiresAt = NULL, !.ballot = NULL]

Range(s) == {s[i] : i \in DOMAIN s}

Init ==
  /\ now = 0
  /\ verifications = <<>>
  /\ ballots = <<>>
  /\ votes = EmptyBag
  /\ req = [s \in Slots |-> Idle]
  /\ faults = 0
  /\ deliveries = {}
  /\ auditLogs = {}
  /\ positions = Positions
  /\ passwordResets = {}

\* --------------------------------------------------------------- queries

\* for comparison: a lookup that never finds a CONSUMED ballot
HasConsumedBallot_Never(v) == FALSE

\* prisma.ballot.findFirst({ where: { voterId, status: 'CONSUMED' } })
HasConsumedBallot(v) ==
  \E b \in DOMAIN ballots : ballots[b].voterId = v /\ ballots[b].status = "CONSUMED"

\* requestOTP's findFirst: unverified rows of the voter issued at or after `since`
RecentVerifications(v, since) ==
  {i \in DOMAIN verifications :
     /\ verifications[i].voterId = v
     /\ verifications[i].issuedAt >= since
     /\ verifications[i].verifiedAt = NULL}

\* for comparison: a lookup that passes over a row once a failed attempt on
\* it is in the audit log
PendingVerifications_Locked(v, t) ==
  {i \in DOMAIN verifications :
     /\ verifications[i].voterId = v
     /\ verifications[i].verifiedAt = NULL
     /\ verifications[i].consumedAt = NULL
     /\ verifications[i].expiresAt >= t
     /\ ~\E a \in auditLogs :
           a.action = "OTP_VERIFICATION_FAILED" /\ a.entityId = i}

\* for comparison: the lookup without `expiresAt: { gte: new Date() }`
PendingVerifications_Expired(v, t) ==
  {i \in DOMAIN verifications :
     /\ verifications[i].voterId = v
     /\ verifications[i].verifiedAt = NULL
     /\ verifications[i].consumedAt = NULL}

\* for comparison: the lookup without `verifiedAt: null`
PendingVerifications_Verified(v, t) ==
  {i \in DOMAIN verifications :
     /\ verifications[i].voterId = v
     /\ verifications[i].consumedAt = NULL
     /\ verifications[i].expiresAt >= t}

\* confirmOTP's findFirst: unverified, unconsumed rows of the voter not expired at t
PendingVerifications(v, t) ==
  {i \in DOMAIN verifications :
     /\ verifications[i].voterId = v
     /\ verifications[i].verifiedAt = NULL
     /\ verifications[i].consumedAt = NULL
     /\ verifications[i].expiresAt >= t}

\* for comparison: findFirst without the orderBy
Latest_Any(S) == S

\* orderBy: { issuedAt: 'desc' } + findFirst: a row of S no other row of S is
\* newer than; rows with equal issuedAt come in an order the database picks
Latest(S) ==
  {i \in S : \A j \in S : verifications[j].issuedAt <= verifications[i].issuedAt}

\* for comparison: Math.floor(a / b)
FloorDiv(a, b) == a \div b

\* Math.ceil(a / b) for integers a and b > 0
CeilDiv(a, b) == 0 - ((0 - a) \div b)

\* bcrypt.hash(otp, 10) and bcrypt.compare(otp, hash)
BcryptHash(otp) == [alg |-> "bcrypt", of |-> otp]
BcryptCompare(otp, hash) == hash = BcryptHash(otp)

\* ---------------------------------------------------------------- logAudit

\* the row a handler hands to logAudit; audit_logs.id is the primary key, here
\* the number of the row
AuditRow(action, entity, entityId) ==
  [action |-> action, entity |-> entity, entityId |-> entityId,
   id |-> Cardinality(auditLogs) + 1]

\* for comparison: a logAudit whose catch throws the error on to the caller
LogAudit_Rethrow(row, written) ==
  [rows |-> IF written THEN {row} ELSE {}, threw |-> ~written]

\* auditLogger lines 13-29: prisma.auditLog.create writes the row (written) or
\* fails; the catch logs the failure to the console and throws nothing
LogAudit(row, written) ==
  [rows |-> IF written THEN {row} ELSE {}, threw |-> FALSE]

\* ------------------------------------------------------------ requestOTP

\* lines 19-53: body check, voter lookup, eligibility, already-voted check
RequestOTP_Begin(s, regNo) ==
  /\ req[s].pc = "idle"
  /\ LET r == [Idle EXCEPT !.op = "requestOTP", !.regNo = regNo] IN
     req' = [req EXCEPT ![s] =
       IF regNo \notin DOMAIN EligibleVoters
         THEN Done(r, Err(404, "Registration number not found"))
       ELSE IF EligibleVoters[regNo].status # "ELIGIBLE"
         THEN Done(r, Err(400, "Voter is not eligible"))
       ELSE IF HasConsumedBallot(EligibleVoters[regNo].id)
         THEN Done(r, Err(400, "You have already voted. Ballot already used."))
       ELSE [r EXCEPT !.pc = "ro_recent", !.now = now]]
  /\ UNCHANGED <<passwordResets, positions, now, verifications, ballots, votes, faults, deliveries, auditLogs>>

\* lines 55-99: the rate limit (its window was computed when the query was
\* built, req.now), the code, expiresAt, the email/phone checks
RequestOTP_RateLimit(s) ==
  /\ req[s].pc = "ro_recent"
  /\ LET r == req[s]
         voter == EligibleVoters[r.regNo]
         recent == Latest(RecentVerifications(voter.id, r.now - OTP_COOLDOWN))
     IN
     IF recent # {}
       THEN \E i \in recent :
              LET remaining == CeilDiv(OTP_COOLDOWN - (now - verifications[i].issuedAt),
                                       MS_PER_SECOND) IN
              req' = [req EXCEPT ![s] =
                Done(r, [Err(429, "Please wait before requesting another OTP")
                           EXCEPT !.n = remaining])]
     ELSE IF ~voter.email
       THEN req' = [req EXCEPT ![s] = Done(r, Err(400, "Voter email not found"))]
     ELSE IF ~voter.phone
       THEN req' = [req EXCEPT ![s] = Done(r, Err(400, "Voter phone number not found"))]
     ELSE \E otp \in Codes :
            req' = [req EXCEPT ![s] =
              [r EXCEPT !.pc = "ro_create", !.otp = otp,
                        !.expiresAt = now + OTP_EXPIRY]]
  /\ UNCHANGED <<passwordResets, positions, now, verifications, ballots, votes, faults, deliveries, auditLogs>>

\* the two sends requestOTP starts, without awaiting them, for verification i
Channels == {"email", "sms"}
Sends(i) == {[ver |-> i, channel |-> c] : c \in Channels}

\* lines 101-179: prisma.verification.create, the two sends and the logAudit
\* of OTP_REQUESTED started and left running (a rejection goes to their
\* .catch), then the 200 response
RequestOTP_Create(s, written) ==
  /\ req[s].pc = "ro_create"
  /\ deliveries' = deliveries \cup Sends(Len(verifications) + 1)
  /\ auditLogs' = auditLogs \cup
       LogAudit(AuditRow("OTP_REQUESTED", "verification", Len(verifications) + 1),
                written).rows
  /\ LET r == req[s] IN
     /\ verifications' = Append(verifications,
          [voterId |-> EligibleVoters[r.regNo].id,
           otpHash |-> BcryptHash(r.otp),
           issuedAt |-> now,
           expiresAt |-> r.expiresAt,
           verifiedAt |-> NULL,
           ballotToken |-> NULL,
           consumedAt |-> NULL])
     /\ req' = [req EXCEPT ![s] =
          Done([r EXCEPT !.otp = ""],
               [NoResp EXCEPT !.status = 200, !.n = EXPIRES_IN])]
  /\ UNCHANGED <<passwordResets, positions, now, ballots, votes, faults>>

\* lines 117-119 and 139-141: a send resolves; its .then only logs to the console
DeliverySent(d) ==
  /\ d \in deliveries
  /\ deliveries' = deliveries \ {d}
  /\ UNCHANGED <<passwordResets, positions, now, verifications, ballots, votes, req, faults, auditLogs>>

\* for comparison: a .catch that reports the request itself as failed
FailureAction_Request(channel) == "OTP_REQUEST_FAILED"

\* the action the .catch of a send hands to logAudit
FailureAction(channel) ==
  IF channel = "email" THEN "OTP_EMAIL_FAILED" ELSE "OTP_SMS_FAILED"

\* lines 120-134 and 142-157: a send rejects; its .catch calls logAudit, whose
\* prisma.auditLog.create writes the row, or fails and is swallowed
\* (auditLogger lines 13-29)
DeliveryFailed(d) ==
  /\ d \in deliveries
  /\ deliveries' = deliveries \ {d}
  /\ \/ auditLogs' = auditLogs \cup
          {[action |-> FailureAction(d.channel), entity |-> "verification",
            entityId |-> d.ver]}
     \/ auditLogs' = auditLogs
  /\ UNCHANGED <<passwordResets, positions, now, verifications, ballots, votes, req, faults>>

\* ------------------------------------------------------------ confirmOTP

\* lines 196-248: body check, voter lookup, the findFirst of the latest pending
\* verification, bcrypt.compare against that row alone; a mismatch is handed
\* to logAudit, awaited, before the 401; what logAudit throws lands in the
\* catch of lines 311-314
ConfirmOTP_Lookup(s, regNo, otp, written) ==
  /\ req[s].pc = "idle"
  /\ LET r == [Idle EXCEPT !.op = "confirmOTP", !.regNo = regNo, !.otp = otp] IN
     IF regNo \notin DOMAIN EligibleVoters
       THEN /\ req' = [req EXCEPT ![s] =
                 Done(r, Err(404, "Registration number not found"))]
            /\ auditLogs' = auditLogs
     ELSE LET found == Latest(PendingVerifications(EligibleVoters[regNo].id, now)) IN
       IF found = {}
         THEN /\ req' = [req EXCEPT ![s] = Done(r, Err(400, "No valid OTP found"))]
              /\ auditLogs' = auditLogs
       ELSE \E i \in found :
         IF ~BcryptCompare(otp, verifications[i].otpHash)
           THEN LET logged == LogAudit(AuditRow("OTP_VERIFICATION_FAILED",
                                                "verification", i), written)
                IN
                /\ auditLogs' = auditLogs \cup logged.rows
                /\ req' = [req EXCEPT ![s] =
                     IF logged.threw THEN Done(r, Err(500, "Failed to verify OTP"))
                     ELSE Done(r, Err(401, "Invalid OTP"))]
         ELSE /\ req' = [req EXCEPT ![s] = [r EXCEPT !.pc = "co_voted", !.ver = i]]
              /\ auditLogs' = auditLogs
  /\ UNCHANGED <<passwordResets, positions, now, verifications, ballots, votes, faults, deliveries>>

\* lines 250-262: refuse a voter who holds a CONSUMED ballot
ConfirmOTP_CheckVoted(s) ==
  /\ req[s].pc = "co_voted"
  /\ req' = [req EXCEPT ![s] =
       IF HasConsumedBallot(EligibleVoters[req[s].regNo].id)
         THEN Done(req[s], Err(400, "You have already voted. Ballot already used."))
       ELSE [req[s] EXCEPT !.pc = "co_verify"]]
  /\ UNCHANGED <<passwordResets, positions, now, verifications, ballots, votes, faults, deliveries, auditLogs>>

\* for comparison: a confirmOTP that goes on to the ballot without the update
ConfirmOTP_MarkVerified_Skip(s) ==
  /\ req[s].pc = "co_verify"
  /\ req' = [req EXCEPT ![s].pc = "co_ballot"]
  /\ UNCHANGED <<passwordResets, positions, now, verifications, ballots, votes,
                 faults, deliveries, auditLogs>>

\* lines 264-270: prisma.verification.update({ verifiedAt: new Date() })
ConfirmOTP_MarkVerified(s) ==
  /\ req[s].pc = "co_verify"
  /\ verifications' = [verifications EXCEPT ![req[s].ver].verifiedAt = now]
  /\ req' = [req EXCEPT ![s].pc = "co_ballot"]
  /\ UNCHANGED <<passwordResets, positions, now, ballots, votes, faults, deliveries, auditLogs>>

\* lines 272-282: crypto.randomBytes(32) and prisma.ballot.create; a fresh
\* token is the new row's index
ConfirmOTP_CreateBallot(s) ==
  /\ req[s].pc = "co_ballot"
  /\ ballots' = Append(ballots,
       [voterId |-> EligibleVoters[req[s].regNo].id,
        token |-> Len(ballots) + 1,
        status |-> "ACTIVE"])
  /\ req' = [req EXCEPT ![s].pc = "co_link", ![s].ballot = Len(ballots) + 1]
  /\ UNCHANGED <<passwordResets, positions, now, verifications, votes, faults, deliveries, auditLogs>>

\* lines 284-314: link the token onto the verification, logAudit of the issue,
\* awaited, then the 200 response
ConfirmOTP_Link(s, written) ==
  /\ req[s].pc = "co_link"
  /\ verifications' = [verifications EXCEPT
       ![req[s].ver].ballotToken = ballots[req[s].ballot].token]
  /\ LET logged == LogAudit(AuditRow("OTP_VERIFIED_BALLOT_ISSUED", "ballot",
                                     req[s].ballot), written)
     IN
     /\ auditLogs' = auditLogs \cup logged.rows
     /\ req' = [req EXCEPT ![s] =
          IF logged.threw THEN Done(req[s], Err(500, "Failed to verify OTP"))
          ELSE Done(req[s], [NoResp EXCEPT !.status = 200,
                                           !.token = ballots[req[s].ballot].token])]
  /\ UNCHANGED <<passwordResets, positions, now, ballots, votes, faults, deliveries>>

\* lines 311-314: a database write of confirmOTP that fails (the connection,
\* a timeout) throws into the catch: the write and the rest of the handler are
\* skipped, what was written before stays, the response is 500
ConfirmOTP_WriteFails(s) ==
  /\ req[s].pc \in {"co_verify", "co_ballot", "co_link"}
  /\ faults < MaxFaults
  /\ faults' = faults + 1
  /\ req' = [req EXCEPT ![s] = Done(req[s], Err(500, "Failed to verify OTP"))]
  /\ UNCHANGED <<passwordResets, positions, now, verifications, ballots, votes, deliveries, auditLogs>>

\* ------------------------------------------------------- voting windows

\* for comparison: the window with its two ends left out (lt and gt)
WindowOpen_Exclusive(p, t) ==
  positions[p].votingOpens < t /\ t < positions[p].votingCloses

\* for comparison: the positions query without the window
WindowOpen_Always(p, t) == TRUE

\* where: { votingOpens: { lte: now }, votingCloses: { gte: now } }
WindowOpen(p, t) == positions[p].votingOpens <= t /\ t <= positions[p].votingCloses

\* prisma.ballot.findUnique({ where: { token } }): the row's id, or NULL
FindBallot(token) ==
  IF \E b \in DOMAIN ballots : ballots[b].token = token
    THEN CHOOSE b \in DOMAIN ballots : ballots[b].token = token
    ELSE NULL

\* the tokens a client may present: those issued, and 0, which no ballot carries
TokenInputs == {0} \cup {ballots[b].token : b \in DOMAIN ballots}

\* for comparison: the status check left out
BallotUsable_Always(b) == TRUE

\* lines 54 and 231: ballot.status === 'CONSUMED' refuses the ballot
BallotUsable(b) == ballots[b].status # "CONSUMED"

\* ------------------------------------------------------------- getBallot

\* the regNo of the eligible_voters row with this id
RegNoOf(v) == CHOOSE r \in DOMAIN EligibleVoters : EligibleVoters[r].id = v

\* lines 37-48 and 215-225: the ballot as findUnique loads it, with
\* include: { voter: { select: { id, regNo, .. } } }
LoadBallot(b) ==
  [id |-> b, status |-> ballots[b].status,
   voter |-> [id |-> ballots[b].voterId, regNo |-> RegNoOf(ballots[b].voterId)]]

\* for comparison: the loaded ballot put into the response as it is
BallotView_Loaded(ballot) == ballot

\* lines 184-188: what of the loaded ballot goes into the response
BallotView(ballot) == [id |-> ballot.id, status |-> ballot.status]

\* lines 27-196: the ballot by token, the positions open now, their approved
\* candidates; it writes nothing
GetBallot(s, token) ==
  /\ req[s].pc = "idle"
  /\ LET r == [Idle EXCEPT !.op = "getBallot", !.token = token]
         b == FindBallot(token)
         open == {p \in DOMAIN positions : WindowOpen(p, now)}
     IN
     req' = [req EXCEPT ![s] =
       IF b = NULL THEN Done(r, Err(404, "Invalid ballot token"))
       ELSE IF ~BallotUsable(b)
         THEN Done(r, Err(400, "This ballot has already been used"))
       ELSE Done(r, [NoResp EXCEPT
              !.status = 200,
              !.ballot = BallotView(LoadBallot(b)),
              !.positions = open,
              !.candidates = {c \in DOMAIN Candidates :
                                /\ Candidates[c].positionId \in open
                                /\ Candidates[c].status = "APPROVED"}])]
  /\ UNCHANGED <<passwordResets, positions, now, verifications, ballots, votes, faults, deliveries, auditLogs>>

\* -------------------------------------------------------------- castVote

\* for comparison: the checks of the batch without the candidate query
ValidateBatch_AnyCandidate(batch, t) ==
  LET positionIds == {batch[i].positionId : i \in DOMAIN batch}
      openFound == {p \in DOMAIN positions : p \in positionIds /\ WindowOpen(p, t)}
  IN
  IF Cardinality(openFound) # Len(batch)
    THEN Err(400, "Some positions are not open for voting")
  ELSE NoResp

\* for comparison: the checks with the open positions counted per selection
ValidateBatch_PerSelection(batch, t) ==
  LET positionIds == {batch[i].positionId : i \in DOMAIN batch}
      openFound == {i \in DOMAIN batch :
                      /\ batch[i].positionId \in DOMAIN positions
                      /\ WindowOpen(batch[i].positionId, t)}
      candidateIds == {batch[i].candidateId : i \in DOMAIN batch}
      approved == {c \in DOMAIN Candidates :
                     c \in candidateIds /\ Candidates[c].status = "APPROVED"}
  IN
  IF Cardinality(openFound) # Len(batch)
    THEN Err(400, "Some positions are not open for voting")
  ELSE IF Cardinality(approved) # Len(batch)
    THEN Err(400, "Some candidates are invalid or not approved")
  ELSE IF Cardinality(positionIds) # Len(batch)
    THEN Err(400, "Cannot vote multiple times for the same position")
  ELSE NoResp

\* lines 248-324: the three checks of the batch against positions and
\* candidates, with the `now` of line 241
ValidateBatch(batch, t) ==
  LET positionIds == {batch[i].positionId : i \in DOMAIN batch}
      openFound == {p \in DOMAIN positions : p \in positionIds /\ WindowOpen(p, t)}
      candidateIds == {batch[i].candidateId : i \in DOMAIN batch}
      approved == {c \in DOMAIN Candidates :
                     c \in candidateIds /\ Candidates[c].status = "APPROVED"}
  IN
  IF Cardinality(openFound) # Len(batch)
    THEN Err(400, "Some positions are not open for voting")
  ELSE IF Cardinality(approved) # Len(batch)
    THEN Err(400, "Some candidates are invalid or not approved")
  ELSE IF Cardinality(positionIds) # Len(batch)
    THEN Err(400, "Cannot vote multiple times for the same position")
  ELSE NoResp

\* lines 202-324: body check, the ballot by token, its status, then the batch
\* against the positions and candidates tables
CastVote_Begin(s, token, batch) ==
  /\ req[s].pc = "idle"
  /\ LET r == [Idle EXCEPT !.op = "castVote", !.token = token, !.votes = batch]
         b == FindBallot(token)
         res == ValidateBatch(batch, now)
     IN
     req' = [req EXCEPT ![s] =
       IF Len(batch) = 0 THEN Done(r, Err(400, "Votes are required"))
       ELSE IF b = NULL THEN Done(r, Err(404, "Invalid ballot token"))
       ELSE IF ~BallotUsable(b)
         THEN Done(r, Err(400, "This ballot has already been used"))
       ELSE IF res # NoResp THEN Done(r, res)
       ELSE [r EXCEPT !.pc = "cv_existing", !.ballot = b]]
  /\ UNCHANGED <<passwordResets, positions, now, verifications, ballots, votes, faults, deliveries, auditLogs>>

\* for comparison: the rows for one of the positions ps on any ballot
VotesOf_AnyBallot(b, ps) ==
  {v \in BagToSet(votes) : v.positionId \in ps}

\* the rows of table votes for ballot b and one of the positions ps
VotesOf(b, ps) ==
  {v \in BagToSet(votes) : v.ballotId = b /\ v.positionId \in ps}

\* lines 326-338: prisma.vote.findMany for this ballot and these positions
CastVote_ExistingVotes(s) ==
  /\ req[s].pc = "cv_existing"
  /\ LET r == req[s]
         existing == VotesOf(r.ballot, {r.votes[k].positionId : k \in DOMAIN r.votes})
     IN
     req' = [req EXCEPT ![s] =
       IF existing # {}
         THEN Done(r, Err(400, "You have already voted for some of these positions"))
       ELSE [r EXCEPT !.pc = "cv_tx"]]
  /\ UNCHANGED <<passwordResets, positions, now, verifications, ballots, votes, faults, deliveries, auditLogs>>

\* for comparison: table votes without the unique index
UniqueBallotPosition_NoIndex(table) == TRUE

\* UNIQUE INDEX votes_ballot_id_position_id_key (ballot_id, position_id):
\* does the table, as a bag of rows, satisfy it?
UniqueBallotPosition(table) ==
  \A v, w \in BagToSet(table) :
    (v.ballotId = w.ballotId /\ v.positionId = w.positionId)
      => (v = w /\ CopiesIn(v, table) = 1)

\* one prisma.vote.create per selection of the batch
VoteRows(b, batch) ==
  [k \in DOMAIN batch |->
     [ballotId |-> b,
      positionId |-> batch[k].positionId,
      candidateId |-> batch[k].candidateId]]

RECURSIVE InsertAll(_, _)
InsertAll(table, rows) ==
  IF rows = <<>> THEN table
  ELSE InsertAll(table (+) SetToBag({Head(rows)}), Tail(rows))

\* lines 340-351: prisma.$transaction of the creates: all rows or none; a
\* rejected insert throws into the catch of lines 384-387
CastVote_Transaction(s) ==
  /\ req[s].pc = "cv_tx"
  /\ LET r == req[s]
         after == InsertAll(votes, VoteRows(r.ballot, r.votes))
     IN
     IF UniqueBallotPosition(after)
       THEN /\ votes' = after
            /\ req' = [req EXCEPT ![s].pc = "cv_consume"]
       ELSE /\ votes' = votes
            /\ req' = [req EXCEPT ![s] = Done(r, Err(500, "Failed to cast vote"))]
  /\ UNCHANGED <<passwordResets, positions, now, verifications, ballots, faults, deliveries, auditLogs>>

\* lines 384-387: a database write that fails (the connection, a timeout)
\* throws into the catch: nothing is written, the response is 500
CastVote_WriteFails(s) ==
  /\ req[s].pc \in {"cv_tx", "cv_consume"}
  /\ faults < MaxFaults
  /\ faults' = faults + 1
  /\ req' = [req EXCEPT ![s] = Done(req[s], Err(500, "Failed to cast vote"))]
  /\ UNCHANGED <<passwordResets, positions, now, verifications, ballots, votes, deliveries, auditLogs>>

\* lines 353-383: prisma.ballot.update to CONSUMED (status and consumedAt in
\* one write), logAudit of CAST_VOTE started and left running (a rejection
\* goes to its .catch), then the 200 response
CastVote_Consume(s, written) ==
  /\ req[s].pc = "cv_consume"
  /\ LET r == req[s] IN
     /\ ballots' = [ballots EXCEPT ![r.ballot].status = "CONSUMED"]
     /\ auditLogs' = auditLogs \cup
          LogAudit(AuditRow("CAST_VOTE", "ballot", r.ballot), written).rows
     /\ req' = [req EXCEPT ![s] =
          Done(r, [NoResp EXCEPT !.status = 200, !.n = Len(r.votes)])]
  /\ UNCHANGED <<passwordResets, positions, now, verifications, votes, faults, deliveries>>

\* ------------------------------------------------ the positions controller

\* NaN: the time of an Invalid Date, what parseFloat gives for no number
NaN == 0 - 2^30

\* the date strings an admin may send: none, one that is no date, three instants
DateInputs ==
  {"", "soon", "1970-01-01T00:00:00Z", "1970-01-01T00:01:40Z", "1970-01-01T00:03:20Z"}

\* lines 9-25: new Date(dateString), in milliseconds; a string that is no date
\* gives an Invalid Date
parseDate(dateString) ==
  CASE dateString = "1970-01-01T00:00:00Z" -> 0
    [] dateString = "1970-01-01T00:01:40Z" -> 100000
    [] dateString = "1970-01-01T00:03:20Z" -> 200000
    [] OTHER -> NaN

\* a < b and a <= b of two Dates: false when either is an Invalid Date
DateLt(a, b) == a # NaN /\ b # NaN /\ a < b
DateLe(a, b) == a # NaN /\ b # NaN /\ a <= b

\* the extension values an admin may send: undefined, no number, 0, 1
HourInputs == {"undefined", "abc", "0", "1"}
parseFloat(x) ==
  CASE x = "0" -> 0
    [] x = "1" -> 1
    [] OTHER -> NaN

\* the ids in the requests of an admin; P3 is the id of the row createPosition
\* adds, P9 is in no row
NewPositionId == "P3"
PositionInputs == {"P3", "P9"}

\* lines 100-176 (the route lets only an ADMIN in; name and seats are sent):
\* all four dates required, each window checked and voting not before the
\* end of nomination, then prisma.position.create, which throws on an Invalid
\* Date, logAudit and the 201
createPosition(s, nominationOpens, nominationCloses, votingOpens, votingCloses, written) ==
  /\ req[s].pc = "idle"
  /\ LET r == [Idle EXCEPT !.op = "createPosition"]
         nomOpen == parseDate(nominationOpens)
         nomClose == parseDate(nominationCloses)
         voteOpen == parseDate(votingOpens)
         voteClose == parseDate(votingCloses)
         refused ==
           IF "" \in {nominationOpens, nominationCloses, votingOpens, votingCloses}
             THEN Err(400, "All fields are required")
           ELSE IF DateLe(nomClose, nomOpen)
             THEN Err(400, "Nomination close date must be after open date")
           ELSE IF DateLe(voteClose, voteOpen)
             THEN Err(400, "Voting close date must be after open date")
           ELSE IF DateLt(voteOpen, nomClose)
             THEN Err(400, "Voting period must start after nomination period ends")
           ELSE IF NaN \in {nomOpen, nomClose, voteOpen, voteClose}
             THEN Err(500, "Failed to create position")
           ELSE NoResp
     IN
     IF refused # NoResp
       THEN /\ req' = [req EXCEPT ![s] = Done(r, refused)]
            /\ UNCHANGED <<passwordResets, positions, auditLogs>>
       ELSE /\ positions' = positions @@
                 (NewPositionId :> [nominationOpens |-> nomOpen,
                                    nominationCloses |-> nomClose,
                                    votingOpens |-> voteOpen,
                                    votingCloses |-> voteClose])
            /\ auditLogs' = auditLogs \cup
                 LogAudit(AuditRow("CREATE_POSITION", "position", NewPositionId),
                          written).rows
            /\ req' = [req EXCEPT ![s] = Done(r, [NoResp EXCEPT !.status = 201])]
  /\ UNCHANGED <<now, verifications, ballots, votes, faults, deliveries, passwordResets>>

\* the spread of lines 205-210: a field that was sent replaces the stored one
Sent(row, field, dateString) ==
  IF dateString = "" THEN row[field] ELSE parseDate(dateString)

\* lines 179-232: the position by id, each window checked when both of its
\* dates are sent, then prisma.position.update with the dates that were sent,
\* which throws on an Invalid Date, logAudit and the 200
updatePosition(s, id, nominationOpens, nominationCloses, votingOpens, votingCloses, written) ==
  /\ req[s].pc = "idle"
  /\ LET r == [Idle EXCEPT !.op = "updatePosition"]
         refused ==
           IF id \notin DOMAIN positions THEN Err(404, "Position not found")
           ELSE IF /\ nominationOpens # "" /\ nominationCloses # ""
                   /\ DateLe(parseDate(nominationCloses), parseDate(nominationOpens))
             THEN Err(400, "Nomination close date must be after open date")
           ELSE IF /\ votingOpens # "" /\ votingCloses # ""
                   /\ DateLe(parseDate(votingCloses), parseDate(votingOpens))
             THEN Err(400, "Voting close date must be after open date")
           ELSE IF \E d \in {nominationOpens, nominationCloses, votingOpens,
                             votingCloses} : d # "" /\ parseDate(d) = NaN
             THEN Err(500, "Failed to update position")
           ELSE NoResp
     IN
     IF refused # NoResp
       THEN /\ req' = [req EXCEPT ![s] = Done(r, refused)]
            /\ UNCHANGED <<passwordResets, positions, auditLogs>>
       ELSE /\ positions' = [positions EXCEPT ![id] =
                 [nominationOpens |-> Sent(@, "nominationOpens", nominationOpens),
                  nominationCloses |-> Sent(@, "nominationCloses", nominationCloses),
                  votingOpens |-> Sent(@, "votingOpens", votingOpens),
                  votingCloses |-> Sent(@, "votingCloses", votingCloses)]]
            /\ auditLogs' = auditLogs \cup
                 LogAudit(AuditRow("UPDATE_POSITION", "position", id), written).rows
            /\ req' = [req EXCEPT ![s] = Done(r, [NoResp EXCEPT !.status = 200])]
  /\ UNCHANGED <<now, verifications, ballots, votes, faults, deliveries, passwordResets>>

\* lines 386-405: the close date moved on by the hours sent, or left alone
Extended(closes, hours) ==
  IF hours = "undefined" THEN closes ELSE closes + parseFloat(hours) * MS_PER_HOUR

\* lines 365-448: the position by id, at least one extension, each a positive
\* number, the extended end of nomination not after the stored votingOpens,
\* then prisma.position.update of the close dates, logAudit and the 200
extendTime(s, id, extendNominationHours, extendVotingHours, written) ==
  /\ req[s].pc = "idle"
  /\ LET r == [Idle EXCEPT !.op = "extendTime"]
         invalid(x) == x # "undefined" /\ (parseFloat(x) = NaN \/ parseFloat(x) <= 0)
         refused ==
           IF id \notin DOMAIN positions THEN Err(404, "Position not found")
           ELSE IF extendNominationHours = "undefined" /\ extendVotingHours = "undefined"
             THEN Err(400, "At least one extension value is required")
           ELSE IF invalid(extendNominationHours)
             THEN Err(400, "extendNominationHours must be a positive number")
           ELSE IF invalid(extendVotingHours)
             THEN Err(400, "extendVotingHours must be a positive number")
           ELSE IF Extended(positions[id].nominationCloses, extendNominationHours)
                     > positions[id].votingOpens
             THEN Err(400, "Nomination period cannot extend beyond voting start date")
           ELSE NoResp
     IN
     IF refused # NoResp
       THEN /\ req' = [req EXCEPT ![s] = Done(r, refused)]
            /\ UNCHANGED <<passwordResets, positions, auditLogs>>
       ELSE /\ positions' = [positions EXCEPT
                 ![id].nominationCloses = Extended(@, extendNominationHours),
                 ![id].votingCloses = Extended(@, extendVotingHours)]
            /\ auditLogs' = auditLogs \cup
                 LogAudit(AuditRow("EXTEND_POSITION_TIME", "position", id),
                          written).rows
            /\ req' = [req EXCEPT ![s] = Done(r, [NoResp EXCEPT !.status = 200])]
  /\ UNCHANGED <<now, verifications, ballots, votes, faults, deliveries, passwordResets>>

\* ------------------------------------------------------- password reset

\* users: email -> row
Users ==
  ("cand@uni.edu" :> [id |-> "U1", role |-> "CANDIDATE", status |-> "ACTIVE"]) @@
  ("gone@uni.edu" :> [id |-> "U2", role |-> "CANDIDATE", status |-> "INACTIVE"]) @@
  ("admin@uni.edu" :> [id |-> "U3", role |-> "ADMIN", status |-> "ACTIVE"])

\* the emails a client may send: none, those of the three users, one of them
\* in capitals, one that is in no row
EmailInputs ==
  {"", "cand@uni.edu", "CAND@UNI.EDU", "gone@uni.edu", "admin@uni.edu", "nobody@uni.edu"}

\* email.toLowerCase()
toLowerCase(email) == IF email = "CAND@UNI.EDU" THEN "cand@uni.edu" ELSE email

\* the message of lines 513-515, 520-522 and 603-606
ResetMessage == [NoResp EXCEPT !.status = 200]

\* lines 496-527: body check, the user by lower-cased email, the role and the
\* status of the account
requestPasswordReset_Begin(s, email) ==
  /\ req[s].pc = "idle"
  /\ LET r == [Idle EXCEPT !.op = "requestPasswordReset", !.email = email]
         key == toLowerCase(email)
     IN
     req' = [req EXCEPT ![s] =
       IF email = "" THEN Done(r, Err(400, "Email is required"))
       ELSE IF key \notin DOMAIN Users THEN Done(r, ResetMessage)
       ELSE IF Users[key].role # "CANDIDATE" THEN Done(r, ResetMessage)
       ELSE IF Users[key].status # "ACTIVE"
         THEN Done(r, Err(400, "Account is inactive. Please contact administrator."))
       ELSE [r EXCEPT !.pc = "pr_recent", !.now = now]]
  /\ UNCHANGED <<now, verifications, ballots, votes, faults, deliveries, auditLogs,
                 positions, passwordResets>>

\* lines 529-555: the findFirst of an unconsumed reset of the user issued in
\* the last two minutes (counted from when the query was built, req.now), the
\* 429, else the code and expiresAt
requestPasswordReset_RateLimit(s) ==
  /\ req[s].pc = "pr_recent"
  /\ LET r == req[s]
         user == Users[toLowerCase(r.email)]
         recent == {p \in passwordResets :
                      /\ p.userId = user.id
                      /\ p.issuedAt >= r.now - RESET_COOLDOWN
                      /\ p.consumedAt = NULL}
     IN
     IF recent # {}
       THEN req' = [req EXCEPT ![s] =
              Done(r, [Err(429, "Please wait before requesting another password reset code")
                         EXCEPT !.n = RESET_RETRY_AFTER])]
       ELSE \E otp \in Codes :
              req' = [req EXCEPT ![s] =
                [r EXCEPT !.pc = "pr_create", !.otp = otp,
                          !.expiresAt = now + RESET_EXPIRY]]
  /\ UNCHANGED <<now, verifications, ballots, votes, faults, deliveries, auditLogs,
                 positions, passwordResets>>

\* a fresh id for a row of password_resets
NewResetId ==
  IF passwordResets = {} THEN 1
  ELSE 1 + CHOOSE n \in {p.id : p \in passwordResets} :
             \A m \in {p.id : p \in passwordResets} : m <= n

\* lines 557-564: prisma.passwordReset.create
requestPasswordReset_Create(s) ==
  /\ req[s].pc = "pr_create"
  /\ LET r == req[s] IN
     /\ passwordResets' = passwordResets \cup
          {[id |-> NewResetId,
            userId |-> Users[toLowerCase(r.email)].id,
            otpHash |-> BcryptHash(r.otp),
            issuedAt |-> now,
            expiresAt |-> r.expiresAt,
            consumedAt |-> NULL]}
     /\ req' = [req EXCEPT ![s] = [r EXCEPT !.pc = "pr_send", !.ver = NewResetId]]
  /\ UNCHANGED <<now, verifications, ballots, votes, faults, deliveries, auditLogs,
                 positions>>

\* lines 566-606: sendPasswordResetOTP, awaited, went through: logAudit and the
\* 200 with expiresIn
requestPasswordReset_Sent(s, written) ==
  /\ req[s].pc = "pr_send"
  /\ auditLogs' = auditLogs \cup
       LogAudit(AuditRow("PASSWORD_RESET_REQUESTED", "password_reset", req[s].ver),
                written).rows
  /\ req' = [req EXCEPT ![s] =
       Done([req[s] EXCEPT !.otp = ""], [ResetMessage EXCEPT !.n = RESET_EXPIRES_IN])]
  /\ UNCHANGED <<now, verifications, ballots, votes, faults, deliveries, positions,
                 passwordResets>>

\* lines 569-588: sendPasswordResetOTP threw: the row is deleted again,
\* logAudit, and the 500
requestPasswordReset_SendFailed(s, written) ==
  /\ req[s].pc = "pr_send"
  /\ passwordResets' = {p \in passwordResets : p.id # req[s].ver}
  /\ auditLogs' = auditLogs \cup
       LogAudit(AuditRow("PASSWORD_RESET_EMAIL_FAILED", "password_reset", req[s].ver),
                written).rows
  /\ req' = [req EXCEPT ![s] =
       Done([req[s] EXCEPT !.otp = ""],
            Err(500, "Failed to send password reset email. Please try again later."))]
  /\ UNCHANGED <<now, verifications, ballots, votes, faults, deliveries, positions>>

\* ------------------------------------------------------------- the clock
Tick ==
  /\ \E d \in TickSteps : now + d <= MaxTime /\ now' = now + d
  /\ UNCHANGED <<passwordResets, positions, verifications, ballots, votes, req, faults, deliveries, auditLogs>>

\* the response has been sent: the slot is free for the next request
Return(s) ==
  /\ req[s].pc = "done"
  /\ req' = [req EXCEPT ![s] = Idle]
  /\ UNCHANGED <<passwordResets, positions, now, verifications, ballots, votes, faults, deliveries, auditLogs>>

\* the slots are interchangeable: a request takes r2 only while r1 is taken
Free(s) == req[s].pc = "idle" /\ (s = "r2" => req["r1"].pc # "idle")

\* the requests the slots of S may make, for the registration numbers R and
\* the vote batches B, and carry on with, while the writes of logAudit come out
\* as one of L (TRUE: the row is written); a request that could add a row to a
\* full table is not taken up
RequestsLogged(S, R, B, L) ==
  \/ \E s \in S, regNo \in R :
       /\ Free(s)
       /\ (regNo \in DOMAIN EligibleVoters /\ ~HasConsumedBallot(EligibleVoters[regNo].id))
            => Len(verifications) + Cardinality({t \in Slots : req[t].op = "requestOTP"
                                              /\ req[t].pc # "done"}) < MaxVerifications
       /\ RequestOTP_Begin(s, regNo)
  \/ \E s \in S : RequestOTP_RateLimit(s)
  \/ \E s \in S, written \in L : RequestOTP_Create(s, written)
  \/ \E s \in S, regNo \in R, otp \in Codes, written \in L :
       /\ Free(s)
       /\ Len(ballots) + Cardinality({t \in Slots : req[t].op = "confirmOTP"
                                        /\ req[t].pc # "done"}) < MaxBallots
       /\ ConfirmOTP_Lookup(s, regNo, otp, written)
       /\ Cardinality({a \in auditLogs' : a.action = "OTP_VERIFICATION_FAILED"})
            <= MaxFailedAttempts
  \/ \E s \in S : ConfirmOTP_CheckVoted(s)
  \/ \E s \in S : ConfirmOTP_MarkVerified(s)
  \/ \E s \in S : ConfirmOTP_CreateBallot(s)
  \/ \E s \in S, written \in L : ConfirmOTP_Link(s, written)
  \/ \E s \in S, token \in TokenInputs : Free(s) /\ GetBallot(s, token)
  \/ \E s \in S, token \in TokenInputs, batch \in B :
       Free(s) /\ CastVote_Begin(s, token, batch)
  \/ \E s \in S : CastVote_ExistingVotes(s)
  \/ \E s \in S : CastVote_Transaction(s)
  \/ \E s \in S, written \in L : CastVote_Consume(s, written)
  \/ \E s \in S : Return(s)

\* the audit store unavailable: audit_logs is written to and never read by
\* these handlers, so the specifications that are not about it leave it empty
RequestsWith(S, R, B) == RequestsLogged(S, R, B, {FALSE})

Requests(S, R) == RequestsWith(S, R, VoteBatches)

\* a database write of a request of S fails
Faults(S) == \E s \in S : CastVote_WriteFails(s)

\* the whole system: requests interleave at their database calls while the
\* clock runs and writes may fail
Next == Requests(Slots, RegNoInputs) \/ Faults(Slots) \/ Tick
Spec == Init /\ [][Next]_vars

\* one request at a time, the clock running between and within requests
NextSerial == Requests({"r1"}, RegNoInputs) \/ Faults({"r1"}) \/ Tick
SpecSerial == Init /\ [][NextSerial]_vars

\* two requests about one voter interleaved at every database call, within one
\* clock instant
NextRace == Requests(Slots, OneVoterInputs) \/ Faults(Slots)
SpecRace == Init /\ [][NextRace]_vars

\* one request at a time about one voter, the clock moving through the
\* instants around the cooldown
Instants == {0, 9500, 10000, 60000, 60001, 61000}
TickTo ==
  /\ \E t \in Instants : t > now /\ now' = t
  /\ UNCHANGED <<passwordResets, positions, verifications, ballots, votes, req, faults, deliveries, auditLogs>>
NextOtp == RequestsWith({"r1"}, OneVoterInputs, {<<Sel("P1", "C1")>>}) \/ TickTo
SpecOtp == Init /\ [][NextOtp]_vars

\* one request at a time about one voter, the sends settling at any time
\* after they were started, or never
Deliveries == \E d \in deliveries : DeliverySent(d) \/ DeliveryFailed(d)
NextDelivery == Requests({"r1"}, OneVoterInputs) \/ Deliveries
SpecDelivery == Init /\ [][NextDelivery]_vars

\* further `votes` arrays: a SUBMITTED candidate, a candidate and a position
\* that are in no row (C9, P9), one position twice, an approved and a rejected
\* candidate, a candidate of another position, one candidate twice
BatchInputs ==
  VoteBatches \cup
  { <<Sel("P2", "C5")>>,
    <<Sel("P1", "C9")>>,
    <<Sel("P9", "C1")>>,
    <<Sel("P1", "C1"), Sel("P1", "C3")>>,
    <<Sel("P1", "C1"), Sel("P2", "C4")>>,
    <<Sel("P2", "C1")>>,
    <<Sel("P1", "C1"), Sel("P2", "C1")>> }

\* one request at a time about one voter, any batch
NextVote == RequestsWith({"r1"}, OneVoterInputs, BatchInputs) \/ Tick
SpecVote == Init /\ [][NextVote]_vars

\* one request at a time about one voter, the clock running and a write of
\* confirmOTP failing
ConfirmFaults(S) == \E s \in S : ConfirmOTP_WriteFails(s)
NextConfirm ==
  \/ RequestsWith({"r1"}, OneVoterInputs, {<<Sel("P1", "C1")>>})
  \/ ConfirmFaults({"r1"})
  \/ Tick
SpecConfirm == Init /\ [][NextConfirm]_vars

\* the requests of an admin on the slots of S about positions; a position is
\* created while its id is free, a window is extended up to MaxDate
PositionRequests(S, L) ==
  \/ \E s \in S, no, nc, vo, vc \in DateInputs, written \in L :
       /\ Free(s)
       /\ NewPositionId \notin DOMAIN positions
       /\ createPosition(s, no, nc, vo, vc, written)
  \/ \E s \in S, id \in PositionInputs, no, nc, vo, vc \in DateInputs, written \in L :
       Free(s) /\ updatePosition(s, id, no, nc, vo, vc, written)
  \/ \E s \in S, id \in PositionInputs, nh, vh \in HourInputs, written \in L :
       /\ Free(s)
       /\ extendTime(s, id, nh, vh, written)
       /\ \A p \in DOMAIN positions' : positions'[p].votingCloses <= MaxDate
  \/ \E s \in S : Return(s)

\* one admin request at a time about the positions, the audit store unavailable
NextPositions == PositionRequests({"r1"}, {FALSE})
SpecPositions == Init /\ [][NextPositions]_vars

\* the requestPasswordReset calls on the slots of S; a request that could add
\* a row to a full table is not taken up
ResetRequests(S, L) ==
  \/ \E s \in S, email \in EmailInputs :
       /\ Free(s)
       /\ Cardinality(passwordResets) < MaxResets
       /\ requestPasswordReset_Begin(s, email)
  \/ \E s \in S : requestPasswordReset_RateLimit(s)
  \/ \E s \in S : requestPasswordReset_Create(s)
  \/ \E s \in S, written \in L : requestPasswordReset_Sent(s, written)
  \/ \E s \in S, written \in L : requestPasswordReset_SendFailed(s, written)
  \/ \E s \in S : Return(s)

\* one password reset request at a time, the clock running, the audit store
\* unavailable
NextReset == ResetRequests({"r1"}, {FALSE}) \/ Tick
SpecReset == Init /\ [][NextReset]_vars

\* one request at a time about one voter, every write of logAudit succeeding
\* or failing
NextAudit ==
  RequestsLogged({"r1"}, OneVoterInputs, {<<Sel("P1", "C1")>>}, BOOLEAN)
SpecAudit == Init /\ [][NextAudit]_vars

\* ================================================================ claims

\* the number of rows of table votes among the rows S
RECURSIVE CountRows(_)
CountRows(S) ==
  IF S = {} THEN 0
  ELSE LET v == CHOOSE x \in S : TRUE IN CopiesIn(v, votes) + CountRows(S \ {v})

RowsOfBallot(b) == {v \in BagToSet(votes) : v.ballotId = b}
BallotsOfVoter(v) == {b \in DOMAIN ballots : ballots[b].voterId = v}
VoterHasVoted(v) == \E b \in BallotsOfVoter(v) : ballots[b].status = "CONSUMED"

\* C1: in every reachable state a ballot is CONSUMED if and only if at least
\* one Vote row references it.
C1_ConsumedIffVotes ==
  \A b \in DOMAIN ballots :
    (ballots[b].status = "CONSUMED") <=> (RowsOfBallot(b) # {})

\* C2: for every voter and position at most one Vote row exists across all the
\* ballots issued to that voter, and at most one of the voter's ballots is
\* CONSUMED.  (Stated for the runs in which no database write fails: the code
\* breaks it there already.)
C2_OneVotePerVoter ==
  faults = 0 =>
  \A v \in VoterIds :
    /\ Cardinality({b \in BallotsOfVoter(v) : ballots[b].status = "CONSUMED"}) <= 1
    /\ \A p \in DOMAIN positions :
         CountRows({r \in BagToSet(votes) :
                      r.ballotId \in BallotsOfVoter(v) /\ r.positionId = p}) <= 1

\* C6: at any time a voter holds at most one ballot in status ACTIVE.
C6_OneActiveBallot ==
  \A v \in VoterIds :
    Cardinality({b \in BallotsOfVoter(v) : ballots[b].status = "ACTIVE"}) <= 1

\* a castVote request on ballot b that has read the ballot as ACTIVE and is
\* still running, or has answered 200
InFlightCast(s, b) ==
  /\ req[s].op = "castVote"
  /\ req[s].pc \in {"cv_existing", "cv_tx", "cv_consume"}
  /\ req[s].ballot = b
WonCast(s, b) ==
  /\ req[s].op = "castVote"
  /\ req[s].pc = "done"
  /\ req[s].resp.status = 200
  /\ req[s].token = ballots[b].token

\* C3: of two castVote requests running concurrently on one ballot token,
\* exactly one records its votes and consumes the ballot, the other answers
\* 400 'This ballot has already been used', and the Vote rows of the ballot are
\* exactly the winner's selections.  (Stated for the runs in which no database
\* write fails.)
C3_OneWinnerLoserRefused ==
  [][\A s, t \in Slots : \A b \in DOMAIN ballots :
       ( /\ s # t
         /\ faults' = 0
         /\ InFlightCast(s, b)
         /\ InFlightCast(t, b) \/ WonCast(t, b)
         /\ req'[s].pc = "done" )
       => \/ /\ req'[s].resp.status = 200
             /\ ~WonCast(t, b)
             /\ {v \in BagToSet(votes') : v.ballotId = b}
                  = Range(VoteRows(b, req[s].votes))
          \/ /\ req'[s].resp = Err(400, "This ballot has already been used")
             /\ votes' = votes
    ]_vars

\* C4: a castVote call made with the token of a ballot that is already
\* CONSUMED creates no Vote row, leaves the ballot unchanged and answers 400.
C4_ConsumedBallotRefused ==
  [][\A s \in Slots : \A b \in DOMAIN ballots :
       ( /\ req[s].pc = "idle"
         /\ req'[s].op = "castVote"
         /\ req'[s].token = ballots[b].token
         /\ ballots[b].status = "CONSUMED" )
       => /\ req'[s].pc = "done"
          /\ req'[s].resp.status = 400
          /\ votes' = votes
          /\ ballots' = ballots
    ]_vars

\* C4's case: a castVote on a CONSUMED ballot has been answered
C4_Witness ==
  \E s \in Slots : \E b \in DOMAIN ballots :
    /\ req[s].op = "castVote"
    /\ req[s].pc = "done"
    /\ req[s].token = ballots[b].token
    /\ ballots[b].status = "CONSUMED"
    /\ req[s].resp = Err(400, "This ballot has already been used")

\* C5: for every ballot and position, at most one Vote row, in every
\* reachable state, also under concurrent castVote requests on one token.
C5_OneVotePerBallotPosition ==
  \A b \in DOMAIN ballots : \A p \in DOMAIN positions :
    CountRows({v \in BagToSet(votes) : v.ballotId = b /\ v.positionId = p}) <= 1

\* C5's case: two castVote requests raced on one ballot and position, one
\* inserted its rows and the other's transaction was rejected
C5_Witness ==
  \E s, t \in Slots : \E b \in DOMAIN ballots :
    /\ s # t
    /\ faults = 0
    /\ req[s].op = "castVote" /\ req[s].pc = "done" /\ req[s].resp.status = 500
    /\ req[s].token = ballots[b].token
    /\ InFlightCast(t, b) \/ WonCast(t, b)
    /\ RowsOfBallot(b) # {}

\* C9: a Verification is confirmed at most once and leads to at most one
\* Ballot, also under concurrent confirmOTP requests: a voter never has more
\* ballots than confirmed verifications.
C9_OneBallotPerVerification ==
  \A v \in VoterIds :
    Cardinality(BallotsOfVoter(v))
      <= Cardinality({i \in DOMAIN verifications :
                        /\ verifications[i].voterId = v
                        /\ verifications[i].verifiedAt # NULL})

\* ---- the OTP claims: what a confirmOTP or requestOTP step is, in the
\* claims' own words

\* slot s takes up a request `op` in this step
Begins(s, op) == req[s].pc = "idle" /\ req'[s].op = op
\* the voter a request of slot s is about, once it has begun
KnownVoter(r) == r.regNo \in DOMAIN EligibleVoters
VoterOf(r) == EligibleVoters[r.regNo].id
\* verification i has not expired, has not been confirmed
Unexpired(i) == verifications[i].expiresAt >= now
Unconfirmed(i) == verifications[i].verifiedAt = NULL
OfVoter(i, v) == verifications[i].voterId = v
CodeIs(i, otp) == verifications[i].otpHash = BcryptHash(otp)
Newer(j, i) == verifications[j].issuedAt > verifications[i].issuedAt
\* confirmOTP has accepted the code and goes on with verification i
Accepts(s, i) == req'[s].pc = "co_voted" /\ req'[s].ver = i
AlreadyVoted == Err(400, "You have already voted. Ballot already used.")

RateLimitStep(s) == req[s].pc = "ro_recent" /\ req'[s] # req[s]
TooManyRequests(r) == r.pc = "done" /\ r.resp.status = 429

\* C11: requestOTP goes on to create a Verification only if no unexpired,
\* unconsumed Verification of the voter, confirmed or not, was issued within
\* the preceding 60 seconds; otherwise it answers 429 and creates nothing.
C11_RecentVerificationBlocks ==
  [][\A s \in Slots :
       ( /\ RateLimitStep(s)
         /\ \E i \in DOMAIN verifications :
              /\ OfVoter(i, VoterOf(req[s]))
              /\ Unexpired(i)
              /\ verifications[i].consumedAt = NULL
              /\ verifications[i].issuedAt >= now - OTP_COOLDOWN )
       => (TooManyRequests(req'[s]) /\ verifications' = verifications)
    ]_vars

\* verification i is the voter's previous OTP request: none of v is newer
Previous(i, v) ==
  /\ OfVoter(i, v)
  /\ \A j \in DOMAIN verifications : OfVoter(j, v) => ~Newer(j, i)
\* the request of slot s creates its Verification and answers in this step
CreateStep(s) == req[s].pc = "ro_create" /\ req'[s] # req[s]
Created(s) ==
  /\ req'[s].pc = "done" /\ req'[s].resp.status = 200
  /\ Len(verifications') = Len(verifications) + 1

\* C12: for a voter whose previous OTP request was made t ago and is not yet
\* confirmed, a new requestOTP succeeds and creates a Verification if t is 61
\* seconds or more, and answers 429 with retryAfter = 60 s - t rounded up to
\* whole seconds, creating nothing, if t is less than 60 seconds.
C12_CooldownByAge ==
  [][\A s \in Slots : \A i \in DOMAIN verifications :
       /\ ( /\ Begins(s, "requestOTP") /\ KnownVoter(req'[s])
            /\ Previous(i, VoterOf(req'[s])) /\ Unconfirmed(i) )
          => req'[s].pc = "ro_recent"
       /\ ( /\ RateLimitStep(s)
            /\ Previous(i, VoterOf(req[s])) /\ Unconfirmed(i) )
          => LET t == req[s].now - verifications[i].issuedAt IN
             /\ t >= OTP_COOLDOWN + MS_PER_SECOND => req'[s].pc = "ro_create"
             /\ t < OTP_COOLDOWN =>
                  /\ TooManyRequests(req'[s])
                  /\ req'[s].resp.n * MS_PER_SECOND >= OTP_COOLDOWN - t
                  /\ (req'[s].resp.n - 1) * MS_PER_SECOND < OTP_COOLDOWN - t
                  /\ verifications' = verifications
       /\ CreateStep(s) => Created(s)
    ]_vars

\* C12 as amended: for a voter without a CONSUMED ballot, with t the age of
\* the previous, unconfirmed request when the new one queries the rate limit;
\* the retryAfter of the 429 is 60 s minus the age the previous request has
\* when the answer is built, rounded up to whole seconds.
C12_CooldownAtResponse ==
  [][\A s \in Slots : \A i \in DOMAIN verifications :
       /\ ( /\ Begins(s, "requestOTP") /\ KnownVoter(req'[s])
            /\ Previous(i, VoterOf(req'[s])) /\ Unconfirmed(i)
            /\ ~VoterHasVoted(VoterOf(req'[s])) )
          => req'[s].pc = "ro_recent"
       /\ ( /\ RateLimitStep(s)
            /\ Previous(i, VoterOf(req[s])) /\ Unconfirmed(i) )
          => LET t == req[s].now - verifications[i].issuedAt
                 left == OTP_COOLDOWN - (now - verifications[i].issuedAt)
             IN
             /\ t >= OTP_COOLDOWN + MS_PER_SECOND => req'[s].pc = "ro_create"
             /\ t < OTP_COOLDOWN =>
                  /\ TooManyRequests(req'[s])
                  /\ req'[s].resp.n * MS_PER_SECOND >= left
                  /\ (req'[s].resp.n - 1) * MS_PER_SECOND < left
                  /\ verifications' = verifications
       /\ CreateStep(s) => Created(s)
    ]_vars

\* C12's case: a request some seconds into the cooldown of a previous,
\* unconfirmed one was answered 429 with the seconds left
C12_Witness ==
  \E s \in Slots : \E i \in DOMAIN verifications :
    /\ req[s].op = "requestOTP" /\ TooManyRequests(req[s])
    /\ Previous(i, VoterOf(req[s])) /\ Unconfirmed(i)
    /\ req[s].resp.n > 0
    /\ req[s].resp.n * MS_PER_SECOND < OTP_COOLDOWN

\* ---- what castVote writes

\* the Vote rows this step adds to the table
NewVoteRows == {v \in BagToSet(votes') : CopiesIn(v, votes') > CopiesIn(v, votes)}
\* the voting window of position p is open at the current instant
OpenNow(p) == positions[p].votingOpens <= now /\ now <= positions[p].votingCloses

\* C13: a Vote row for position P is written only if votingOpens(P) <= now <=
\* votingCloses(P) holds at the moment the row is committed.
C13_WindowOpenAtCommit ==
  [][\A v \in NewVoteRows : OpenNow(v.positionId)]_vars

\* the castVote of slot s, past validation, ends in a failure in this step
FailsAfterValidation(s) ==
  /\ req[s].op = "castVote" /\ req[s].pc \in {"cv_tx", "cv_consume"}
  /\ req'[s].pc = "done" /\ req'[s].resp.status >= 500

\* C16: whenever castVote ends in a failure for an attempt that had passed all
\* validation steps, the ballot is still ACTIVE and no Vote row of that attempt
\* is persisted.
C16_FailureLeavesNothing ==
  [][\A s \in Slots :
       FailsAfterValidation(s) =>
         /\ ballots'[req[s].ballot].status = "ACTIVE"
         /\ \A v \in BagToSet(votes') : \A k \in DOMAIN req[s].votes :
              ~( /\ v.ballotId = req[s].ballot
                 /\ v.positionId = req[s].votes[k].positionId
                 /\ v.candidateId = req[s].votes[k].candidateId )
    ]_vars

\* ---- what castVote accepts

\* candidate c exists and is APPROVED
Approved(c) == c \in DOMAIN Candidates /\ Candidates[c].status = "APPROVED"
\* the token is that of a ballot that is not CONSUMED
TokenOfActive(token) ==
  \E b \in DOMAIN ballots : ballots[b].token = token /\ ballots[b].status = "ACTIVE"
\* every selection of the batch names a position of its own, open now
DistinctOpenPositions(batch) ==
  /\ \A k \in DOMAIN batch :
       batch[k].positionId \in DOMAIN positions /\ OpenNow(batch[k].positionId)
  /\ \A k, l \in DOMAIN batch : batch[k].positionId = batch[l].positionId => k = l
\* the request slot s takes up in this step is answered with an error at once
RefusedAtOnce(s) == req'[s].pc = "done" /\ req'[s].resp.status \in 400..499

\* C14: every Vote row references a candidate that was APPROVED when castVote
\* validated the batch: a batch with a candidate that does not exist or is
\* SUBMITTED or REJECTED is rejected and writes no Vote row, with 400 'Some
\* candidates are invalid or not approved' when the ballot is usable and the
\* positions named are open, each named once.
C14_OnlyApprovedCandidates ==
  [][/\ \A v \in NewVoteRows : Approved(v.candidateId)
     /\ \A s \in Slots :
          ( /\ Begins(s, "castVote")
            /\ \E k \in DOMAIN req'[s].votes : ~Approved(req'[s].votes[k].candidateId) )
          => /\ RefusedAtOnce(s)
             /\ votes' = votes /\ ballots' = ballots
             /\ (TokenOfActive(req'[s].token) /\ DistinctOpenPositions(req'[s].votes))
                  => req'[s].resp = Err(400, "Some candidates are invalid or not approved")
    ]_vars

\* C14's case: a usable ballot, an open position, a candidate that is not
\* APPROVED, and the batch refused
C14_Witness ==
  \E s \in Slots :
    /\ req[s].op = "castVote" /\ req[s].pc = "done"
    /\ TokenOfActive(req[s].token)
    /\ DistinctOpenPositions(req[s].votes)
    /\ \E k \in DOMAIN req[s].votes : ~Approved(req[s].votes[k].candidateId)
    /\ req[s].resp = Err(400, "Some candidates are invalid or not approved")

\* the batch names one position in two selections
RepeatsPosition(batch) ==
  \E k, l \in DOMAIN batch : k # l /\ batch[k].positionId = batch[l].positionId

OnlyRead == {"idle", "ro_recent", "ro_create", "co_voted", "co_verify",
             "cv_existing", "cv_tx"}
\* the request of slot s moves in this step
Moves(s) == req'[s] # req[s] /\ req'[s].pc # "idle"
ValidationError(r) == r.pc = "done" /\ r.resp.status \in 400..499
TablesUnchanged ==
  verifications' = verifications /\ ballots' = ballots /\ votes' = votes

\* C17: every requestOTP, confirmOTP, getBallot or castVote call that ends in
\* a 4xx response leaves the Verification, Ballot and Vote tables as they
\* were: the 4xx is answered by a request that has only read so far, and a
\* request that has only read has changed no table.
C17_ErrorsWriteNothing ==
  [][\A s \in Slots :
       /\ (Moves(s) /\ ValidationError(req'[s]))
            => (req[s].pc \in OnlyRead /\ TablesUnchanged)
       /\ (Moves(s) /\ req'[s].pc \in OnlyRead)
            => (req[s].pc \in OnlyRead /\ TablesUnchanged)
    ]_vars

\* C17's case: with votes in the table, a castVote was refused with a 4xx
C17_Witness ==
  \E s \in Slots :
    /\ ValidationError(req[s])
    /\ req[s].op = "castVote"
    /\ votes # EmptyBag

\* ---- getBallot

TokenOfConsumed(token) ==
  \E b \in DOMAIN ballots : ballots[b].token = token /\ ballots[b].status = "CONSUMED"

\* C18: getBallot never changes any stored state; for an ACTIVE ballot it
\* returns only positions whose voting window is open at the time of the call
\* and only candidates that are APPROVED and belong to one of those positions;
\* for a CONSUMED ballot it returns 400 'This ballot has already been used'.
C18_GetBallotReadsOpenApproved ==
  [][\A s \in Slots :
       Begins(s, "getBallot") =>
         /\ TablesUnchanged /\ auditLogs' = auditLogs /\ deliveries' = deliveries
         /\ req'[s].pc = "done"
         /\ TokenOfActive(req'[s].token) =>
              /\ req'[s].resp.status = 200
              /\ \A p \in req'[s].resp.positions : p \in DOMAIN positions /\ OpenNow(p)
              /\ \A c \in req'[s].resp.candidates :
                   Approved(c) /\ Candidates[c].positionId \in req'[s].resp.positions
         /\ TokenOfConsumed(req'[s].token) =>
              req'[s].resp = Err(400, "This ballot has already been used")
    ]_vars

\* C18's case: getBallot answered for an ACTIVE ballot and left out a position
\* and a candidate
C18_Witness ==
  \E s \in Slots :
    /\ req[s].op = "getBallot" /\ req[s].pc = "done"
    /\ req[s].resp.status = 200
    /\ req[s].resp.positions # DOMAIN positions
    /\ \E c \in DOMAIN Candidates :
         Approved(c) /\ c \notin req[s].resp.candidates

\* ---- the voting cycle

\* the batch selects an approved candidate of the position for every position
\* that is open now, as getBallot returns them, and for no other
FullBallot(batch) ==
  /\ {batch[k].positionId : k \in DOMAIN batch} = {p \in DOMAIN positions : OpenNow(p)}
  /\ ~RepeatsPosition(batch)
  /\ \A k \in DOMAIN batch :
       /\ Approved(batch[k].candidateId)
       /\ Candidates[batch[k].candidateId].positionId = batch[k].positionId
\* the castVote of slot s takes a step at pc
CastAt(s, pc) == req[s].op = "castVote" /\ req[s].pc = pc /\ Moves(s)

\* C19: with the token confirmOTP returned for an OTP of requestOTP, one
\* castVote that selects an approved candidate for every position getBallot
\* returns, the clock inside all windows, no write failing, succeeds and leaves
\* the ballot CONSUMED with the votes of the batch; any later castVote with the
\* same token fails.
C19_FullCycle ==
  [][\A s \in Slots :
       /\ ( /\ Begins(s, "castVote")
            /\ TokenOfActive(req'[s].token)
            /\ FullBallot(req'[s].votes) )
          => req'[s].pc = "cv_existing"
       /\ CastAt(s, "cv_existing") => req'[s].pc = "cv_tx"
       /\ CastAt(s, "cv_tx") =>
            /\ req'[s].pc = "cv_consume"
            /\ \A k \in DOMAIN req[s].votes :
                 CopiesIn([ballotId |-> req[s].ballot,
                           positionId |-> req[s].votes[k].positionId,
                           candidateId |-> req[s].votes[k].candidateId], votes') = 1
       /\ CastAt(s, "cv_consume") =>
            /\ req'[s].pc = "done" /\ req'[s].resp.status = 200
            /\ req'[s].resp.n = Len(req[s].votes)
            /\ ballots'[req[s].ballot].status = "CONSUMED"
       /\ (Begins(s, "castVote") /\ TokenOfConsumed(req'[s].token))
          => (ValidationError(req'[s]) /\ TablesUnchanged)
    ]_vars

\* C19's case: a ballot for both open positions was cast and its ballot is
\* CONSUMED
C19_Witness ==
  \E s \in Slots :
    /\ req[s].op = "castVote" /\ req[s].pc = "done"
    /\ req[s].resp.status = 200
    /\ FullBallot(req[s].votes) /\ Len(req[s].votes) = 2
    /\ TokenOfConsumed(req[s].token)
    /\ \A v \in VoterIds : Cardinality(BallotsOfVoter(v)) <= 1

\* ---- the OTP deliveries

\* sends that settle in this step
Settled == deliveries \ deliveries'
\* the audit row a failed send of verification i may leave
FailureRows(i) ==
  {[action |-> a, entity |-> "verification", entityId |-> i] :
     a \in {"OTP_EMAIL_FAILED", "OTP_SMS_FAILED"}}

\* C20: requestOTP answers 200 as soon as the Verification row is persisted,
\* with both sends still running; a send that fails, succeeds or never settles
\* changes neither the response nor any Verification, and a failure only adds
\* an OTP_EMAIL_FAILED / OTP_SMS_FAILED audit row for its verification.
C20_DeliveryNeverSurfaces ==
  [][/\ \A s \in Slots :
          CreateStep(s) =>
            /\ Created(s)
            /\ \A c \in {"email", "sms"} :
                 [ver |-> Len(verifications'), channel |-> c] \in deliveries'
            /\ auditLogs' = auditLogs
     /\ \A d \in Settled :
          /\ req' = req
          /\ TablesUnchanged
          /\ auditLogs \subseteq auditLogs'
          /\ auditLogs' \ auditLogs \subseteq FailureRows(d.ver)
          /\ Cardinality(auditLogs' \ auditLogs) <= 1
    ]_vars

\* C20's case: requestOTP was answered 200, the SMS of its verification then
\* failed and was audited, and the email has not settled
C20_Witness ==
  \E s \in Slots : \E i \in DOMAIN verifications :
    /\ req[s].op = "requestOTP" /\ req[s].pc = "done" /\ req[s].resp.status = 200
    /\ [action |-> "OTP_SMS_FAILED", entity |-> "verification", entityId |-> i] \in auditLogs
    /\ [ver |-> i, channel |-> "email"] \in deliveries
    /\ Unconfirmed(i)

\* ---------------------------------------------------------------- C21

\* the audit_logs rows of one action about one entity id
AuditRows(action, entityId) ==
  {a \in auditLogs : a.action = action /\ a.entityId = entityId}

\* confirmOTP meets a code that no latest pending verification of the voter carries
WrongCode(s) ==
  /\ Begins(s, "confirmOTP") /\ KnownVoter(req'[s])
  /\ LET pending == {i \in DOMAIN verifications :
                       /\ OfVoter(i, VoterOf(req'[s]))
                       /\ Unconfirmed(i) /\ Unexpired(i)}
     IN /\ pending # {}
        /\ \A i \in pending : ~CodeIs(i, req'[s].otp)

\* C21: a failure of the audit-log write never changes the outcome of the
\* operation being audited: the steps of confirmOTP and castVote that call
\* logAudit give the same response and leave the same Verification, Ballot and
\* Vote state whether the row is appended or not: the wrong code is answered
\* 401 with the tables untouched, the link of the ballot 200 with the token,
\* the consumed ballot 200 with the number of votes.
C21_AuditFailureChangesNothing ==
  [][\A s \in Slots :
       /\ WrongCode(s) =>
            /\ req'[s].pc = "done" /\ req'[s].resp = Err(401, "Invalid OTP")
            /\ TablesUnchanged
       /\ (req[s].pc = "co_link" /\ Moves(s)) =>
            /\ req'[s].pc = "done"
            /\ req'[s].resp = [NoResp EXCEPT !.status = 200,
                                             !.token = ballots[req[s].ballot].token]
            /\ verifications' = [verifications EXCEPT
                 ![req[s].ver].ballotToken = ballots[req[s].ballot].token]
            /\ ballots' = ballots /\ votes' = votes
       /\ (req[s].pc = "cv_consume" /\ Moves(s)) =>
            /\ req'[s].pc = "done"
            /\ req'[s].resp = [NoResp EXCEPT !.status = 200, !.n = Len(req[s].votes)]
            /\ ballots' = [ballots EXCEPT ![req[s].ballot].status = "CONSUMED"]
            /\ verifications' = verifications /\ votes' = votes
    ]_vars

\* C21's case: a vote was cast and answered 200 on a ballot that was issued
\* and answered 200, and neither audit row was written
C21_Witness ==
  \E s \in Slots : \E b \in DOMAIN ballots :
    /\ req[s].op = "castVote" /\ req[s].pc = "done" /\ req[s].resp.status = 200
    /\ req[s].token = ballots[b].token /\ ballots[b].status = "CONSUMED"
    /\ AuditRows("CAST_VOTE", b) = {}
    /\ AuditRows("OTP_VERIFIED_BALLOT_ISSUED", b) = {}
    /\ \E i \in DOMAIN verifications : verifications[i].ballotToken = ballots[b].token

\* ---------------------------------------------------------------- C22

\* the voter's verifications confirmOTP may still take up
PendingOf(v) ==
  {i \in DOMAIN verifications : OfVoter(i, v) /\ Unconfirmed(i) /\ Unexpired(i)}
\* the voter's unconfirmed verifications that carry the code and have expired
ExpiredWithCode(v, otp) ==
  {i \in DOMAIN verifications :
     OfVoter(i, v) /\ Unconfirmed(i) /\ CodeIs(i, otp) /\ ~Unexpired(i)}

Verified(i) == verifications[i].verifiedAt # NULL
Linked(i) == verifications[i].ballotToken # NULL

\* C23: a Verification only moves ISSUED -> EXPIRED or ISSUED -> VERIFIED ->
\* LINKED: verifiedAt once set is never cleared or changed; ballotToken is set
\* only on a record whose verifiedAt is set and is never cleared; a record is
\* not expired when it is verified; a record that reached VERIFIED does not
\* stay there: when the request that verified it is over, it is LINKED.
C23_VerificationLifecycle ==
  [][\A i \in DOMAIN verifications :
       /\ Verified(i) => verifications'[i].verifiedAt = verifications[i].verifiedAt
       /\ (~Linked(i) /\ verifications'[i].ballotToken # NULL) => Verified(i)
       /\ Linked(i) => verifications'[i].ballotToken # NULL
       /\ (~Verified(i) /\ verifications'[i].verifiedAt # NULL) => Unexpired(i)
       /\ \A s \in Slots :
            ( /\ req[s].op = "confirmOTP" /\ req[s].ver = i
              /\ verifications'[i].verifiedAt # NULL
              /\ req'[s].pc = "done" )
            => verifications'[i].ballotToken # NULL
    ]_vars

\* ---------------------------------------------------------------- C25

\* C25: every stored Position satisfies nominationCloses <= votingOpens and
\* votingOpens < votingCloses, after any sequence of createPosition,
\* updatePosition and extendTime calls.
C25_WindowsOrdered ==
  \A p \in DOMAIN positions :
    /\ positions[p].nominationCloses <= positions[p].votingOpens
    /\ positions[p].votingOpens < positions[p].votingCloses

\* ---------------------------------------------------------------- C24

\* castVote's window check turns the batch down
WindowRefusal == Err(400, "Some positions are not open for voting")

\* C24: getBallot and castVote use the same inclusive window test: getBallot
\* at `now` returns exactly the positions P with votingOpens <= now <=
\* votingCloses, and castVote at `now` lets a selection for a stored position P
\* past its window check exactly when P satisfies the same test; both accept
\* now = votingOpens and now = votingCloses.
C24_SameInclusiveWindow ==
  [][\A s \in Slots :
       /\ (Begins(s, "getBallot") /\ TokenOfActive(req'[s].token)) =>
            req'[s].resp.positions = {p \in DOMAIN positions : OpenNow(p)}
       /\ ( /\ Begins(s, "castVote") /\ TokenOfActive(req'[s].token)
            /\ Len(req'[s].votes) = 1
            /\ req'[s].votes[1].positionId \in DOMAIN positions ) =>
            LET p == req'[s].votes[1].positionId IN
            (req'[s].pc = "done" /\ req'[s].resp = WindowRefusal) <=> ~OpenNow(p)
    ]_vars

\* C24's case: getBallot returned a position at the very instant its voting
\* opens or closes (the clock has not passed votingCloses since)
C24_Witness ==
  \E s \in Slots :
    /\ req[s].op = "getBallot" /\ req[s].pc = "done" /\ req[s].resp.status = 200
    /\ \E p \in req[s].resp.positions : positions[p].votingCloses = now

\* ---------------------------------------------------------------- C26

\* the answer requestPasswordReset gives an email that is in no row of users
UnknownEmailResponse == [NoResp EXCEPT !.status = 200]

\* C26: requestPasswordReset gives an unknown email the same response (status
\* and body) as an existing account: every request that names an email is
\* answered as the unknown email is.
C26_SameResponseForAnyEmail ==
  \A s \in Slots :
    (req[s].op = "requestPasswordReset" /\ req[s].pc = "done" /\ req[s].email # "")
      => req[s].resp = UnknownEmailResponse

\* ---------------------------------------------------------------- C27

\* the columns and the values that tell who a voter is
VoterFields == {"voter", "voterId", "regNo", "name"}
VoterValues == VoterIds \cup DOMAIN EligibleVoters

\* C27: no Vote row carries a voter-identifying attribute (only ballot,
\* position and candidate; the cast time is not modelled), and the successful
\* responses of getBallot and castVote contain no voter id, regNo or name.
C27_NoVoterInVotesOrResponses ==
  /\ \A v \in BagToSet(votes) :
       /\ DOMAIN v = {"ballotId", "positionId", "candidateId"}
       /\ v.ballotId \in DOMAIN ballots
       /\ {v.positionId, v.candidateId} \cap VoterValues = {}
  /\ \A s \in Slots :
       ( /\ req[s].op \in {"getBallot", "castVote"}
         /\ req[s].pc = "done" /\ req[s].resp.status = 200 ) =>
         /\ DOMAIN req[s].resp \cap VoterFields = {}
         /\ DOMAIN req[s].resp.ballot \cap VoterFields = {}
         /\ (req[s].resp.positions \cup req[s].resp.candidates) \cap VoterValues = {}
         /\ req[s].resp.error = ""

\* C27's case: votes are stored and getBallot has answered 200 for a ballot
C27_Witness ==
  /\ votes # EmptyBag
  /\ \E s \in Slots :
       /\ req[s].op = "getBallot" /\ req[s].pc = "done" /\ req[s].resp.status = 200
       /\ req[s].resp.ballot.id \in DOMAIN ballots

\* ---------------------------------------------------------------- C28

\* C28: for every Vote row, the candidate it references belongs to the
\* position it references: candidate.positionId = vote.positionId.
C28_CandidateOfVotedPosition ==
  \A v \in BagToSet(votes) :
    /\ v.candidateId \in DOMAIN Candidates
    /\ Candidates[v.candidateId].positionId = v.positionId

\* ---------------------------------------------------------------- C29

\* C29: every Ballot is backed by a confirmed OTP: for each ballot there is a
\* Verification of the same voter with verifiedAt set, and a Verification
\* whose ballotToken is set names the token of an existing ballot of the same
\* voter.
C29_BallotBackedByVerification ==
  /\ \A b \in DOMAIN ballots :
       \E i \in DOMAIN verifications :
         OfVoter(i, ballots[b].voterId) /\ Verified(i)
  /\ \A i \in DOMAIN verifications :
       Linked(i) =>
         \E b \in DOMAIN ballots :
           /\ ballots[b].token = verifications[i].ballotToken
           /\ OfVoter(i, ballots[b].voterId)

\* C29's case: two ballots were issued and a verification is linked to one
C29_Witness ==
  /\ Len(ballots) = 2
  /\ \E i \in DOMAIN verifications : Linked(i)

\* ---------------------------------------------------------------- C30

\* the OTP_VERIFICATION_FAILED rows of audit_logs about verification i
FailedAttempts(i) == AuditRows("OTP_VERIFICATION_FAILED", i)

====
